---- MODULE Spec2Model ----
(***************************************************************************)
(* Model of sched-analyzer (src/sched-analyzer.c): the per-event handlers, *)
(* the ignore decision, the per-event worker threads and main()'s          *)
(* startup / shutdown sequence.                                            *)
(***************************************************************************)
EXTENDS Integers, Sequences, FiniteSets, TLC

VARIABLES
    sa_opts,      \* the global option block read by every handler
    mpc,          \* main(): [at |-> label, i |-> index of the thread macro]
    err,          \* main()'s local err
    exit_status,  \* <<value returned by main()>>, << >> while it runs
    installed,    \* signal(SIGINT/SIGTERM, sig_handler) has been called
    exiting,      \* static volatile bool exiting
    skel,         \* state of the shared skeleton handle
    fatal,        \* history: the code load/attach failed with, 0 if none
    sink,         \* perfetto session: "off", "init", "recording", "stopped"
    thread_err,   \* event##_err of main(), one per thread
    joined,       \* history: threads for which pthread_join() returned
    wpc,          \* position of each event##_thread_fn
    rb,           \* records pending in each event##_rb
    arrived,      \* history: every record the producer put in each ring buffer
    dispatched,   \* history: handler invocations made by each thread
    trace,        \* trace_*() calls made by each thread, with the sink state
    late_polls,   \* history: ring_buffer__poll calls begun while exiting
    autoload,     \* BPF programs of the skeleton with autoload left on
    poll_failed,  \* per thread: err < 0 after its last POLL_EVENT_RB
    hcall         \* handler harness: the single handler call made, or NoCall

vars == <<sa_opts, mpc, err, exit_status, installed, exiting, skel, fatal,
          sink, thread_err, joined, wpc, rb, arrived, dispatched,
          trace, late_polls, autoload, poll_failed, hcall>>

pipeline_vars == <<mpc, err, exit_status, installed, exiting, skel, fatal,
                   sink, thread_err, joined, wpc, rb, arrived,
                   dispatched, trace, late_polls, autoload, poll_failed>>

----------------------------------------------------------------------------
(* Bounds *)

\* number of event threads modelled, taken in creation order
NumThreads == 2
\* total number of records the producer delivers in a run
MaxEvents == 2
\* largest PELT / uclamp value drawn for an event field
MaxVal == 1
\* longest comm passed to the ignore decision
MaxCommLen == 3
\* longest pid list and comm list of the filter
MaxFilter == 2
\* cap of the late_polls history counter
MaxLatePolls == 3
\* largest argument the clamp macro is called with
MaxClamp == 2

----------------------------------------------------------------------------
(* Program constants *)

Sentinel == -1

Kinds == <<"rq_pelt", "task_pelt", "rq_nr_running", "sched_switch",
           "freq_idle", "softirq", "lb", "ipi">>

Min2(a, b) == IF a <= b THEN a ELSE b

Threads == 1..Min2(NumThreads, Len(Kinds))

PeltTypes == {"cfs", "rt", "dl", "irq", "thermal", "other"}

LbPhases == {"LB_NOHZ_IDLE_BALANCE", "LB_RUN_REBALANCE_DOMAINS",
             "LB_REBALANCE_DOMAINS", "LB_BALANCE_FAIR",
             "LB_PICK_NEXT_TASK_FAIR", "LB_NEWIDLE_BALANCE",
             "LB_LOAD_BALANCE", "LB_OTHER"}

CpuPeltCaps == {"load_avg_cpu", "runnable_avg_cpu", "util_avg_cpu",
                "util_avg_rt", "util_avg_dl", "util_avg_irq",
                "load_avg_thermal", "util_est_cpu"}
CpuStateCaps == {"cpu_nr_running", "cpu_idle"}
TaskCaps == {"load_avg_task", "runnable_avg_task", "util_avg_task",
             "util_est_task"}
GlobalCaps == {"load_balance", "ipi"}
Caps == CpuPeltCaps \cup CpuStateCaps \cup TaskCaps \cup GlobalCaps

\* struct sa_opts: the capability toggles and the pid / comm filter
MkOpts(on, pids, comms) ==
    [load_avg_cpu      |-> "load_avg_cpu" \in on,
     runnable_avg_cpu  |-> "runnable_avg_cpu" \in on,
     util_avg_cpu      |-> "util_avg_cpu" \in on,
     util_avg_rt       |-> "util_avg_rt" \in on,
     util_avg_dl       |-> "util_avg_dl" \in on,
     util_avg_irq      |-> "util_avg_irq" \in on,
     load_avg_thermal  |-> "load_avg_thermal" \in on,
     util_est_cpu      |-> "util_est_cpu" \in on,
     cpu_nr_running    |-> "cpu_nr_running" \in on,
     cpu_idle          |-> "cpu_idle" \in on,
     load_avg_task     |-> "load_avg_task" \in on,
     runnable_avg_task |-> "runnable_avg_task" \in on,
     util_avg_task     |-> "util_avg_task" \in on,
     util_est_task     |-> "util_est_task" \in on,
     load_balance      |-> "load_balance" \in on,
     ipi               |-> "ipi" \in on,
     num_pids          |-> Len(pids),
     pid               |-> pids,
     num_comms         |-> Len(comms),
     comm              |-> comms]

----------------------------------------------------------------------------
(* Trace records: one per trace_*() call *)

Rec(op, ts, key, val) == [op |-> op, ts |-> ts, key |-> key, val |-> val]

If(c, recs) == IF c THEN recs ELSE << >>

\* a clamp that forgets the lower bound
clamp_no_floor(val, lo, hi) == IF val >= hi THEN hi ELSE val

\* #define clamp(val, lo, hi)
clamp(val, lo, hi) ==
    IF val >= hi THEN hi ELSE (IF val <= lo THEN lo ELSE val)

\* a match at the start of the haystack only
strstr_from_prefix(hay, needle, i) ==
    IF Len(needle) <= Len(hay) /\ SubSeq(hay, 1, Len(needle)) = needle
    THEN 1 ELSE 0

\* strstr(): index of the first occurrence of needle at or after i, 0 if none
RECURSIVE strstr_from(_, _, _)
strstr_from(hay, needle, i) ==
    IF i + Len(needle) - 1 > Len(hay) THEN 0
    ELSE IF SubSeq(hay, i, i + Len(needle) - 1) = needle THEN i
    ELSE strstr_from(hay, needle, i + 1)

strstr(hay, needle) == strstr_from(hay, needle, 1)

\* for (i = 0; i < sa_opts.num_pids; i++) if (sa_opts.pid[i] == pid)
RECURSIVE pid_listed(_, _, _)
pid_listed(o, pid, i) ==
    IF i > o.num_pids THEN FALSE
    ELSE IF o.pid[i] = pid THEN TRUE
    ELSE pid_listed(o, pid, i + 1)

\* for (i = 0; i < sa_opts.num_comms; i++) if (strstr(comm, sa_opts.comm[i]))
RECURSIVE comm_listed(_, _, _)
comm_listed(o, comm, i) ==
    IF i > o.num_comms THEN FALSE
    ELSE IF strstr(comm, o.comm[i]) # 0 THEN TRUE
    ELSE comm_listed(o, comm, i + 1)

ignore_pid_comm(o, pid, comm) ==
    IF o.num_pids = 0 /\ o.num_comms = 0 THEN FALSE
    ELSE IF pid_listed(o, pid, 1) THEN FALSE
    ELSE IF comm_listed(o, comm, 1) THEN FALSE
    ELSE TRUE

----------------------------------------------------------------------------
(* Handlers: the sequence of trace_*() calls each one makes for an event *)

\* a switch whose rt case is gated by the cfs capability
rq_pelt_util_rt_under_cfs(o, e) ==
    IF e.util_avg = Sentinel THEN << >>
    ELSE IF e.type = "cfs" THEN
        If(o.util_avg_cpu,
           <<Rec("trace_cpu_util_avg", e.ts, <<e.cpu>>, e.util_avg)>>
           \o If(e.uclamp_min # Sentinel /\ e.uclamp_max # Sentinel,
                 <<Rec("trace_cpu_uclamped_avg", e.ts, <<e.cpu>>,
                       clamp(e.util_avg, e.uclamp_min, e.uclamp_max))>>))
    ELSE IF e.type = "rt" THEN
        If(o.util_avg_cpu,
           <<Rec("trace_cpu_util_avg_rt", e.ts, <<e.cpu>>, e.util_avg)>>)
    ELSE IF e.type = "dl" THEN
        If(o.util_avg_dl,
           <<Rec("trace_cpu_util_avg_dl", e.ts, <<e.cpu>>, e.util_avg)>>)
    ELSE IF e.type = "irq" THEN
        If(o.util_avg_irq,
           <<Rec("trace_cpu_util_avg_irq", e.ts, <<e.cpu>>, e.util_avg)>>)
    ELSE << >>

rq_pelt_util(o, e) ==
    IF e.util_avg = Sentinel THEN << >>
    ELSE IF e.type = "cfs" THEN
        If(o.util_avg_cpu,
           <<Rec("trace_cpu_util_avg", e.ts, <<e.cpu>>, e.util_avg)>>
           \o If(e.uclamp_min # Sentinel /\ e.uclamp_max # Sentinel,
                 <<Rec("trace_cpu_uclamped_avg", e.ts, <<e.cpu>>,
                       clamp(e.util_avg, e.uclamp_min, e.uclamp_max))>>))
    ELSE IF e.type = "rt" THEN
        If(o.util_avg_rt,
           <<Rec("trace_cpu_util_avg_rt", e.ts, <<e.cpu>>, e.util_avg)>>)
    ELSE IF e.type = "dl" THEN
        If(o.util_avg_dl,
           <<Rec("trace_cpu_util_avg_dl", e.ts, <<e.cpu>>, e.util_avg)>>)
    ELSE IF e.type = "irq" THEN
        If(o.util_avg_irq,
           <<Rec("trace_cpu_util_avg_irq", e.ts, <<e.cpu>>, e.util_avg)>>)
    ELSE << >>

handle_rq_pelt_event(o, e) ==
    If(o.load_avg_cpu /\ e.load_avg # Sentinel,
       <<Rec("trace_cpu_load_avg", e.ts, <<e.cpu>>, e.load_avg)>>)
    \o If(o.runnable_avg_cpu /\ e.runnable_avg # Sentinel,
          <<Rec("trace_cpu_runnable_avg", e.ts, <<e.cpu>>, e.runnable_avg)>>)
    \o If(e.type = "thermal" /\ o.load_avg_thermal,
          <<Rec("trace_cpu_load_avg_thermal", e.ts, <<e.cpu>>, e.load_avg)>>)
    \o rq_pelt_util(o, e)
    \o If(o.util_est_cpu /\ e.util_est_enqueued # Sentinel,
          <<Rec("trace_cpu_util_est_enqueued", e.ts, <<e.cpu>>,
                e.util_est_enqueued)>>)

handle_task_pelt_event(o, e) ==
    IF ignore_pid_comm(o, e.pid, e.comm) THEN << >>
    ELSE
        If(o.load_avg_task /\ e.load_avg # Sentinel,
           <<Rec("trace_task_load_avg", e.ts, <<e.comm, e.pid>>, e.load_avg)>>)
        \o If(o.runnable_avg_task /\ e.runnable_avg # Sentinel,
              <<Rec("trace_task_runnable_avg", e.ts, <<e.comm, e.pid>>,
                    e.runnable_avg)>>)
        \o If(o.util_avg_task /\ e.util_avg # Sentinel,
              <<Rec("trace_task_util_avg", e.ts, <<e.comm, e.pid>>,
                    e.util_avg)>>
              \o If(e.uclamp_min # Sentinel /\ e.uclamp_max # Sentinel,
                    <<Rec("trace_task_uclamped_avg", e.ts, <<e.comm, e.pid>>,
                          clamp(e.util_avg, e.uclamp_min, e.uclamp_max))>>))
        \o If(o.util_est_task /\ e.util_est_enqueued # Sentinel,
              <<Rec("trace_task_util_est_enqueued", e.ts, <<e.comm, e.pid>>,
                    e.util_est_enqueued),
                Rec("trace_task_util_est_ewma", e.ts, <<e.comm, e.pid>>,
                    e.util_est_ewma)>>)

\* a handler that puts the pid / comm filter in front of a per-CPU record
handle_rq_nr_running_event_filtered(o, e) ==
    If(o.cpu_nr_running /\ ~ignore_pid_comm(o, 0, << >>),
       <<Rec("trace_cpu_nr_running", e.ts, <<e.cpu>>, e.nr_running)>>)

handle_rq_nr_running_event(o, e) ==
    If(o.cpu_nr_running,
       <<Rec("trace_cpu_nr_running", e.ts, <<e.cpu>>, e.nr_running)>>)

handle_sched_switch_event(o, e) ==
    IF ignore_pid_comm(o, e.pid, e.comm) THEN << >>
    ELSE
        If(~e.running /\ o.util_avg_task,
           <<Rec("trace_task_load_avg", e.ts, <<e.comm, e.pid>>, 0)>>)
        \o If(~e.running /\ o.util_avg_task,
              <<Rec("trace_task_util_avg", e.ts, <<e.comm, e.pid>>, 0),
                Rec("trace_task_uclamped_avg", e.ts, <<e.comm, e.pid>>, 0)>>)
        \o If(~e.running /\ o.util_est_task,
              <<Rec("trace_task_util_est_enqueued", e.ts, <<e.comm, e.pid>>, 0),
                Rec("trace_task_util_est_ewma", e.ts, <<e.comm, e.pid>>, 0)>>)

handle_freq_idle_event(o, e) ==
    If(o.cpu_idle,
       <<Rec("trace_cpu_idle", e.ts, <<e.cpu>>, e.idle_state)>>
       \o If(e.idle_miss # 0,
             <<Rec("trace_cpu_idle_miss", e.ts, <<e.cpu, e.idle_state>>,
                   e.idle_miss)>>))

handle_softirq_event(o, e) == << >>

lb_phase_name(phase) ==
    CASE phase = "LB_NOHZ_IDLE_BALANCE"     -> "_nohz_idle_balance()"
      [] phase = "LB_RUN_REBALANCE_DOMAINS" -> "run_rebalance_domains()"
      [] phase = "LB_REBALANCE_DOMAINS"     -> "rebalance_domains()"
      [] phase = "LB_BALANCE_FAIR"          -> "balance_fair()"
      [] phase = "LB_PICK_NEXT_TASK_FAIR"   -> "pick_next_task_fair()"
      [] phase = "LB_NEWIDLE_BALANCE"       -> "newidle_balance()"
      [] phase = "LB_LOAD_BALANCE"          -> "load_balance()"
      [] OTHER                              -> "unknown"

\* a handler that takes the statistics snapshot on exit as well
handle_lb_event_stats_any_entry(o, e) ==
    If(e.phase = "LB_REBALANCE_DOMAINS",
       <<Rec("trace_lb_sd_stats", e.ts, << >>, e.sd_stats)>>)
    \o If(e.overloaded # Sentinel,
          <<Rec("trace_lb_overloaded", e.ts, << >>, e.overloaded)>>)
    \o If(e.overutilized # Sentinel,
          <<Rec("trace_lb_overutilized", e.ts, << >>, e.overutilized)>>)
    \o If(e.misfit_task_load # Sentinel,
          <<Rec("trace_lb_misfit", e.ts, <<e.lb_cpu>>, e.misfit_task_load)>>)
    \o (IF e.entry
        THEN <<Rec("trace_lb_entry", e.ts,
                   <<e.this_cpu, e.lb_cpu, lb_phase_name(e.phase)>>, 0)>>
        ELSE <<Rec("trace_lb_exit", e.ts, <<e.this_cpu, e.lb_cpu>>, 0)>>)

handle_lb_event(o, e) ==
    If(e.phase = "LB_REBALANCE_DOMAINS" /\ e.entry,
       <<Rec("trace_lb_sd_stats", e.ts, << >>, e.sd_stats)>>)
    \o If(e.overloaded # Sentinel,
          <<Rec("trace_lb_overloaded", e.ts, << >>, e.overloaded)>>)
    \o If(e.overutilized # Sentinel,
          <<Rec("trace_lb_overutilized", e.ts, << >>, e.overutilized)>>)
    \o If(e.misfit_task_load # Sentinel,
          <<Rec("trace_lb_misfit", e.ts, <<e.lb_cpu>>, e.misfit_task_load)>>)
    \o (IF e.entry
        THEN <<Rec("trace_lb_entry", e.ts,
                   <<e.this_cpu, e.lb_cpu, lb_phase_name(e.phase)>>, 0)>>
        ELSE <<Rec("trace_lb_exit", e.ts, <<e.this_cpu, e.lb_cpu>>, 0)>>)

\* the symbolizer: a name for a known address, "unresolved" otherwise
find_kallsyms(addr) == IF addr = 1 THEN "schedule" ELSE "unresolved"

handle_ipi_event(o, e) ==
    <<Rec("trace_ipi_send_cpu", e.ts,
          <<e.from_cpu, e.target_cpu, find_kallsyms(e.callsite), e.callsite,
            find_kallsyms(e.callback), e.callback>>, 0)>>

\* ring_buffer__new(..., handle_##event##_event, ...): the callback of a kind
Handle(kind, o, e) ==
    CASE kind = "rq_pelt"       -> handle_rq_pelt_event(o, e)
      [] kind = "task_pelt"     -> handle_task_pelt_event(o, e)
      [] kind = "rq_nr_running" -> handle_rq_nr_running_event(o, e)
      [] kind = "sched_switch"  -> handle_sched_switch_event(o, e)
      [] kind = "freq_idle"     -> handle_freq_idle_event(o, e)
      [] kind = "softirq"       -> handle_softirq_event(o, e)
      [] kind = "lb"            -> handle_lb_event(o, e)
      [] kind = "ipi"           -> handle_ipi_event(o, e)

----------------------------------------------------------------------------
(* Inputs of the pipeline *)

\* argp_parse(): the option blocks a run is started with
PipelineConfigs == {MkOpts(Caps, << >>, << >>)}

\* error codes of argp_parse() and of load / attach
ArgpErrs == {22}
FatalErrs == {-1, -13}
CreateErrs == {11}

\* the record of a kind the producer emits at time ts
SampleEvent(kind, ts) ==
    CASE kind = "rq_pelt" ->
           [ts |-> ts, cpu |-> 0, type |-> "cfs", load_avg |-> 1,
            runnable_avg |-> 1, util_avg |-> 1, uclamp_min |-> 0,
            uclamp_max |-> 2, util_est_enqueued |-> 1]
      [] kind = "task_pelt" ->
           [ts |-> ts, pid |-> 1, comm |-> <<"a">>, load_avg |-> 1,
            runnable_avg |-> 1, util_avg |-> 1, uclamp_min |-> 0,
            uclamp_max |-> 2, util_est_enqueued |-> 1, util_est_ewma |-> 1]
      [] kind = "rq_nr_running" -> [ts |-> ts, cpu |-> 0, nr_running |-> 1]
      [] kind = "sched_switch" ->
           [ts |-> ts, pid |-> 1, comm |-> <<"a">>, running |-> FALSE]
      [] kind = "freq_idle" ->
           [ts |-> ts, cpu |-> 0, idle_state |-> 1, idle_miss |-> 0]
      [] kind = "softirq" -> [ts |-> ts, cpu |-> 0]
      [] kind = "lb" ->
           [ts |-> ts, phase |-> "LB_LOAD_BALANCE", entry |-> TRUE,
            this_cpu |-> 0, lb_cpu |-> 1, overloaded |-> Sentinel,
            overutilized |-> Sentinel, misfit_task_load |-> Sentinel,
            sd_stats |-> 0]
      [] kind = "ipi" ->
           [ts |-> ts, from_cpu |-> 0, target_cpu |-> 1, callsite |-> 1,
            callback |-> 2]

RECURSIVE SumLen(_, _)
SumLen(f, S) ==
    IF S = {} THEN 0
    ELSE LET k == CHOOSE x \in S : TRUE
         IN  Len(f[k]) + SumLen(f, S \ {k})

\* flatten: the records of a batch of events, in order
RECURSIVE HandleAll(_, _, _)
HandleAll(kind, o, batch) ==
    IF batch = << >> THEN << >>
    ELSE Handle(kind, o, Head(batch)) \o HandleAll(kind, o, Tail(batch))

----------------------------------------------------------------------------
(* main() *)

At(label) == [at |-> label, i |-> 0]
AtThread(label, i) == [at |-> label, i |-> i]

\* "goto cleanup" lands on the first DESTROY_EVENT_THREAD
Cleanup == AtThread("join", 1)

\* return err < 0 ? -err : 0;
ExitStatus(e) == IF e < 0 THEN -e ELSE 0

\* err = event##_err ? 0 : pthread_join(event##_tid, NULL);
JoinErr(terr, join_ret) == IF terr # 0 THEN 0 ELSE join_ret

NoCall == << >>

Init ==
    /\ sa_opts = MkOpts({}, << >>, << >>)
    /\ mpc = At("argp")
    /\ err = 0
    /\ exit_status = << >>
    /\ installed = FALSE
    /\ exiting = FALSE
    /\ skel = "null"
    /\ fatal = 0
    /\ sink = "off"
    /\ thread_err = [k \in Threads |-> -1]
    /\ joined = {}
    /\ wpc = [k \in Threads |-> "none"]
    /\ rb = [k \in Threads |-> << >>]
    /\ arrived = [k \in Threads |-> << >>]
    /\ dispatched = [k \in Threads |-> << >>]
    /\ trace = [k \in Threads |-> << >>]
    /\ late_polls = [k \in Threads |-> 0]
    /\ autoload = {}
    /\ poll_failed = [k \in Threads |-> FALSE]
    /\ hcall = NoCall

\* err = argp_parse(...); if (err) return err;
MainArgp ==
    /\ mpc = At("argp")
    /\ \E o \in PipelineConfigs, r \in {0} \cup ArgpErrs :
          /\ err' = r
          /\ IF r # 0
             THEN /\ exit_status' = <<r>>
                  /\ mpc' = At("done")
                  /\ UNCHANGED sa_opts
             ELSE /\ sa_opts' = o
                  /\ mpc' = At("init")
                  /\ UNCHANGED exit_status
    /\ UNCHANGED <<installed, exiting, skel, fatal, sink, thread_err, joined,
                   wpc, rb, arrived, dispatched, trace, late_polls,
                   autoload, poll_failed, hcall>>

\* init_perfetto(); signal(SIGINT, sig_handler); signal(SIGTERM, sig_handler);
MainInit ==
    /\ mpc = At("init")
    /\ sink' = "init"
    /\ installed' = TRUE
    /\ mpc' = At("open")
    /\ UNCHANGED <<sa_opts, err, exit_status, exiting, skel, fatal,
                   thread_err, joined, wpc, rb, arrived, dispatched,
                   trace, late_polls, autoload, poll_failed, hcall>>

\* skel = sched_analyzer_bpf__open(); if (!skel) return 1;
MainOpen ==
    /\ mpc = At("open")
    /\ \E ok \in BOOLEAN :
          IF ok
          THEN /\ skel' = "open"
               /\ mpc' = At("autoload")
               /\ UNCHANGED exit_status
          ELSE /\ exit_status' = <<1>>
               /\ mpc' = At("done")
               /\ UNCHANGED skel
    /\ UNCHANGED <<sa_opts, err, installed, exiting, fatal, sink, thread_err,
                   joined, wpc, rb, arrived, dispatched, trace,
                   late_polls, autoload, poll_failed, hcall>>

\* skel->progs.*: the BPF programs main() names
LbProgs ==
    {"handle_run_rebalance_domains_exit", "handle_run_rebalance_domains_entry",
     "handle_rebalance_domains_entry", "handle_rebalance_domains_exit",
     "handle_balance_fair_entry", "handle_balance_fair_exit",
     "handle_pick_next_task_fair_entry", "handle_pick_next_task_fair_exit",
     "handle_newidle_balance_entry", "handle_newidle_balance_exit",
     "handle_load_balance_entry", "handle_load_balance_exit"}

Progs ==
    {"handle_pelt_cfs", "handle_pelt_se", "handle_pelt_rt", "handle_pelt_dl",
     "handle_pelt_irq", "handle_pelt_thermal", "handle_util_est_cfs",
     "handle_util_est_se", "handle_sched_update_nr_running",
     "handle_cpu_idle", "handle_cpu_idle_miss", "handle_ipi_send_cpu",
     "handle_sched_process_free", "handle_nohz_idle_balance_entry",
     "handle_nohz_idle_balance_exit", "handle_cpu_frequency",
     "handle_softirq_entry", "handle_softirq_exit", "handle_sched_switch"}
    \cup LbProgs

\* if (cond) bpf_program__set_autoload(skel->progs.<each of progs>, false);
AutoloadOff(cond, progs) == IF cond THEN progs ELSE {}

\* a test that drops the cfs program as soon as one of its signals is off
pelt_cfs_unused_any(o) ==
    ~o.load_avg_cpu \/ ~o.runnable_avg_cpu \/ ~o.util_avg_cpu

\* !sa_opts.load_avg_cpu && !sa_opts.runnable_avg_cpu && !sa_opts.util_avg_cpu
pelt_cfs_unused(o) ==
    ~o.load_avg_cpu /\ ~o.runnable_avg_cpu /\ ~o.util_avg_cpu

\* the bpf_program__set_autoload(..., false) calls of main(): the programs
\* whose autoload is turned off under the options o
set_autoload(o) ==
    AutoloadOff(pelt_cfs_unused(o), {"handle_pelt_cfs"})
    \cup AutoloadOff(~o.load_avg_task /\ ~o.runnable_avg_task
                       /\ ~o.util_avg_task,
                     {"handle_pelt_se"})
    \cup AutoloadOff(~o.util_avg_rt, {"handle_pelt_rt"})
    \cup AutoloadOff(~o.util_avg_dl, {"handle_pelt_dl"})
    \cup AutoloadOff(~o.util_avg_irq, {"handle_pelt_irq"})
    \cup AutoloadOff(~o.load_avg_thermal, {"handle_pelt_thermal"})
    \cup AutoloadOff(~o.util_est_cpu, {"handle_util_est_cfs"})
    \cup AutoloadOff(~o.util_est_task, {"handle_util_est_se"})
    \cup AutoloadOff(~o.cpu_nr_running, {"handle_sched_update_nr_running"})
    \cup AutoloadOff(~o.cpu_idle, {"handle_cpu_idle", "handle_cpu_idle_miss"})
    \cup AutoloadOff(~o.load_balance, LbProgs)
    \cup AutoloadOff(~o.ipi, {"handle_ipi_send_cpu"})
    \cup AutoloadOff(~o.load_avg_task /\ ~o.runnable_avg_task
                       /\ ~o.util_avg_task /\ ~o.util_est_task,
                     {"handle_sched_process_free"})
    \cup {"handle_nohz_idle_balance_entry", "handle_nohz_idle_balance_exit",
          "handle_cpu_frequency", "handle_softirq_entry",
          "handle_softirq_exit", "handle_sched_switch"}

\* skel->bss->sa_opts = sa_opts; and the autoload selection that follows:
\* every program is loaded unless its autoload was turned off
MainAutoload ==
    /\ mpc = At("autoload")
    /\ autoload' = Progs \ set_autoload(sa_opts)
    /\ mpc' = At("load")
    /\ UNCHANGED <<sa_opts, err, exit_status, installed, exiting, skel, fatal,
                   sink, thread_err, joined, wpc, rb, arrived, dispatched,
                   trace, late_polls, poll_failed, hcall>>

\* err = sched_analyzer_bpf__load(skel); if (err) goto cleanup;
MainLoad ==
    /\ mpc = At("load")
    /\ \E r \in {0} \cup FatalErrs :
          /\ err' = r
          /\ IF r # 0
             THEN /\ fatal' = r
                  /\ mpc' = Cleanup
                  /\ UNCHANGED skel
             ELSE /\ skel' = "loaded"
                  /\ mpc' = At("attach")
                  /\ UNCHANGED fatal
    /\ UNCHANGED <<sa_opts, exit_status, installed, exiting, sink, thread_err,
                   joined, wpc, rb, arrived, dispatched, trace,
                   late_polls, autoload, poll_failed, hcall>>

\* an attach failure that is logged and not acted on
MainAttach_continues ==
    /\ mpc = At("attach")
    /\ \E r \in {0} \cup FatalErrs :
          /\ err' = r
          /\ fatal' = IF r # 0 THEN r ELSE fatal
          /\ skel' = "attached"
          /\ mpc' = AtThread("create", 1)
    /\ UNCHANGED <<sa_opts, exit_status, installed, exiting, sink, thread_err,
                   joined, wpc, rb, arrived, dispatched, trace,
                   late_polls, autoload, poll_failed, hcall>>

\* err = sched_analyzer_bpf__attach(skel); if (err) goto cleanup;
MainAttach ==
    /\ mpc = At("attach")
    /\ \E r \in {0} \cup FatalErrs :
          /\ err' = r
          /\ IF r # 0
             THEN /\ fatal' = r
                  /\ mpc' = Cleanup
                  /\ UNCHANGED skel
             ELSE /\ skel' = "attached"
                  /\ mpc' = AtThread("create", 1)
                  /\ UNCHANGED fatal
    /\ UNCHANGED <<sa_opts, exit_status, installed, exiting, sink, thread_err,
                   joined, wpc, rb, arrived, dispatched, trace,
                   late_polls, autoload, poll_failed, hcall>>

\* CREATE_EVENT_THREAD(event)
MainCreate ==
    /\ mpc.at = "create"
    /\ \E r \in {0} \cup CreateErrs :
          /\ thread_err' = [thread_err EXCEPT ![mpc.i] = r]
          /\ IF r # 0
             THEN /\ mpc' = Cleanup
                  /\ UNCHANGED wpc
             ELSE /\ wpc' = [wpc EXCEPT ![mpc.i] = "create_rb"]
                  /\ mpc' = IF mpc.i = Len(Kinds) \/ mpc.i + 1 \notin Threads
                            THEN At("start")
                            ELSE AtThread("create", mpc.i + 1)
    /\ UNCHANGED <<sa_opts, err, exit_status, installed, exiting, skel, fatal,
                   sink, joined, rb, arrived, dispatched, trace,
                   late_polls, autoload, poll_failed, hcall>>

\* start_perfetto_trace();
MainStart ==
    /\ mpc = At("start")
    /\ sink' = "recording"
    /\ mpc' = At("wait")
    /\ UNCHANGED <<sa_opts, err, exit_status, installed, exiting, skel, fatal,
                   thread_err, joined, wpc, rb, arrived, dispatched,
                   trace, late_polls, autoload, poll_failed, hcall>>

\* while (!exiting) sleep(1);
MainWait ==
    /\ mpc = At("wait")
    /\ mpc' = IF exiting THEN At("stop") ELSE mpc
    /\ UNCHANGED <<sa_opts, err, exit_status, installed, exiting, skel, fatal,
                   sink, thread_err, joined, wpc, rb, arrived,
                   dispatched, trace, late_polls, autoload, poll_failed, hcall>>

\* stop_perfetto_trace();
MainStop ==
    /\ mpc = At("stop")
    /\ sink' = "stopped"
    /\ mpc' = Cleanup
    /\ UNCHANGED <<sa_opts, err, exit_status, installed, exiting, skel, fatal,
                   thread_err, joined, wpc, rb, arrived, dispatched,
                   trace, late_polls, autoload, poll_failed, hcall>>

\* a join that returns without waiting for the thread
MainJoin_no_wait ==
    /\ mpc.at = "join"
    /\ err' = JoinErr(thread_err[mpc.i], 0)
    /\ joined' = IF thread_err[mpc.i] = 0 THEN joined \cup {mpc.i} ELSE joined
    /\ mpc' = IF mpc.i = Len(Kinds) \/ mpc.i + 1 \notin Threads
              THEN At("destroy")
              ELSE AtThread("join", mpc.i + 1)
    /\ UNCHANGED <<sa_opts, exit_status, installed, exiting, skel, fatal,
                   sink, thread_err, wpc, rb, arrived, dispatched,
                   trace, late_polls, autoload, poll_failed, hcall>>

\* DESTROY_EVENT_THREAD(event): pthread_join() returns once the thread has
\* returned; a thread whose event##_err is not 0 is not joined
MainJoin ==
    /\ mpc.at = "join"
    /\ thread_err[mpc.i] = 0 => wpc[mpc.i] = "done"
    /\ err' = JoinErr(thread_err[mpc.i], 0)
    /\ joined' = IF thread_err[mpc.i] = 0 THEN joined \cup {mpc.i} ELSE joined
    /\ mpc' = IF mpc.i = Len(Kinds) \/ mpc.i + 1 \notin Threads
              THEN At("destroy")
              ELSE AtThread("join", mpc.i + 1)
    /\ UNCHANGED <<sa_opts, exit_status, installed, exiting, skel, fatal,
                   sink, thread_err, wpc, rb, arrived, dispatched,
                   trace, late_polls, autoload, poll_failed, hcall>>

\* sched_analyzer_bpf__destroy(skel); return err < 0 ? -err : 0;
MainDestroy ==
    /\ mpc = At("destroy")
    /\ skel' = "destroyed"
    /\ exit_status' = <<ExitStatus(err)>>
    /\ mpc' = At("done")
    /\ UNCHANGED <<sa_opts, err, installed, exiting, fatal, sink, thread_err,
                   joined, wpc, rb, arrived, dispatched, trace,
                   late_polls, autoload, poll_failed, hcall>>

MainStep ==
    \/ MainArgp \/ MainInit \/ MainOpen \/ MainAutoload \/ MainLoad
    \/ MainAttach \/ MainCreate \/ MainStart \/ MainWait \/ MainStop \/ MainJoin
    \/ MainDestroy

\* sig_handler(): SIGINT or SIGTERM delivered to the running process
SigHandler ==
    /\ installed
    /\ mpc.at # "done"
    /\ exiting' = TRUE
    /\ UNCHANGED <<sa_opts, mpc, err, exit_status, installed, skel, fatal,
                   sink, thread_err, joined, wpc, rb, arrived,
                   dispatched, trace, late_polls, autoload, poll_failed, hcall>>

----------------------------------------------------------------------------
(* The producer: a record lands in the ring buffer map of one event kind *)

Arrive(k) ==
    /\ skel = "attached"
    /\ SumLen(arrived, Threads) < MaxEvents
    /\ LET e == SampleEvent(Kinds[k], Len(arrived[k]) + 1)
       IN  /\ rb' = [rb EXCEPT ![k] = Append(@, e)]
           /\ arrived' = [arrived EXCEPT ![k] = Append(@, e)]
    /\ UNCHANGED <<sa_opts, mpc, err, exit_status, installed, exiting, skel,
                   fatal, sink, thread_err, joined, wpc, dispatched,
                   trace, late_polls, autoload, poll_failed, hcall>>

----------------------------------------------------------------------------
(* event##_thread_fn *)

\* a consumer that walks the batch from its newest record
Invocations_newest_first(handler, batch) ==
    [n \in 1..Len(batch) |->
        [handler |-> handler, ev |-> batch[Len(batch) + 1 - n]]]

\* the handler invocations of a batch: the callback of the buffer, per record
Invocations(handler, batch) ==
    [n \in 1..Len(batch) |-> [handler |-> handler, ev |-> batch[n]]]

\* the trace_*() calls of a batch, stamped with the state of the session
Stamp(recs, session) ==
    [n \in 1..Len(recs) |-> [rec |-> recs[n], session |-> session]]

\* the handler registered by ring_buffer__new() for thread k's buffer
HandlerOf(k) == Kinds[k]

\* CREATE_EVENT_RB(event)
WorkerCreateRb(k) ==
    /\ wpc[k] = "create_rb"
    /\ \E ok \in BOOLEAN :
          wpc' = [wpc EXCEPT ![k] = IF ok THEN "check" ELSE "cleanup"]
    /\ UNCHANGED <<sa_opts, mpc, err, exit_status, installed, exiting, skel,
                   fatal, sink, thread_err, joined, rb, arrived, dispatched,
                   trace, late_polls, autoload, poll_failed, hcall>>

\* a loop that never looks at the flag
LoopCond_ignores(flag) == TRUE

\* the value of the loop condition: while (!exiting)
LoopCond(flag) == ~flag

\* while (!exiting)
WorkerCheck(k) ==
    /\ wpc[k] = "check"
    /\ wpc' = [wpc EXCEPT ![k] = IF LoopCond(exiting) THEN "poll"
                                                       ELSE "cleanup"]
    /\ UNCHANGED <<sa_opts, mpc, err, exit_status, installed, exiting, skel,
                   fatal, sink, thread_err, joined, rb, arrived,
                   dispatched, trace, late_polls, autoload, poll_failed, hcall>>

\* POLL_EVENT_RB(event): the call of ring_buffer__poll(event##_rb, 1000)
WorkerPollBegin(k) ==
    /\ wpc[k] = "poll"
    /\ wpc' = [wpc EXCEPT ![k] = "in_poll"]
    /\ late_polls' = [late_polls EXCEPT ![k] =
                         IF exiting THEN Min2(@ + 1, MaxLatePolls) ELSE @]
    /\ UNCHANGED <<sa_opts, mpc, err, exit_status, installed, exiting, skel,
                   fatal, sink, thread_err, joined, rb, arrived,
                   dispatched, trace, autoload, poll_failed, hcall>>

\* a poll without timeout: it returns only once a record was consumed
WorkerPollReturn_blocking(k) ==
    /\ wpc[k] = "in_poll"
    /\ rb[k] # << >>
    /\ dispatched' = [dispatched EXCEPT ![k] =
                         @ \o Invocations(HandlerOf(k), rb[k])]
    /\ trace' = [trace EXCEPT ![k] =
                    @ \o Stamp(HandleAll(HandlerOf(k), sa_opts, rb[k]), sink)]
    /\ rb' = [rb EXCEPT ![k] = << >>]
    /\ wpc' = [wpc EXCEPT ![k] = "sleep"]
    /\ poll_failed' = [poll_failed EXCEPT ![k] = FALSE]
    /\ UNCHANGED <<sa_opts, mpc, err, exit_status, installed, exiting, skel,
                   fatal, sink, thread_err, joined, arrived, late_polls,
                   autoload, hcall>>

\* POLL_EVENT_RB(event): ring_buffer__poll() returns.  Either it has consumed
\* every pending record through the callback and err is their count, or it
\* returns -EINTR before consuming any and err is set to 0.
WorkerPollReturn(k) ==
    /\ wpc[k] = "in_poll"
    /\ \/ /\ dispatched' = [dispatched EXCEPT ![k] =
                               @ \o Invocations(HandlerOf(k), rb[k])]
          /\ trace' = [trace EXCEPT ![k] =
                          @ \o Stamp(HandleAll(HandlerOf(k), sa_opts, rb[k]),
                                     sink)]
          /\ rb' = [rb EXCEPT ![k] = << >>]
       \/ UNCHANGED <<rb, dispatched, trace>>
    /\ wpc' = [wpc EXCEPT ![k] = "sleep"]
    /\ poll_failed' = [poll_failed EXCEPT ![k] = FALSE]
    /\ UNCHANGED <<sa_opts, mpc, err, exit_status, installed, exiting, skel,
                   fatal, sink, thread_err, joined, arrived, late_polls,
                   autoload, hcall>>

\* a poll failure that ends the thread
WorkerPollError_fatal(k) ==
    /\ wpc[k] = "in_poll"
    /\ wpc' = [wpc EXCEPT ![k] = "cleanup"]
    /\ poll_failed' = [poll_failed EXCEPT ![k] = TRUE]
    /\ UNCHANGED <<sa_opts, mpc, err, exit_status, installed, exiting, skel,
                   fatal, sink, thread_err, joined, rb, arrived, dispatched,
                   trace, late_polls, autoload, hcall>>

\* POLL_EVENT_RB(event): ring_buffer__poll() returns a negative code other
\* than -EINTR before consuming any record: err < 0, the error is printed
\* and the macro breaks out to the usleep() of the loop.
WorkerPollError(k) ==
    /\ wpc[k] = "in_poll"
    /\ wpc' = [wpc EXCEPT ![k] = "sleep"]
    /\ poll_failed' = [poll_failed EXCEPT ![k] = TRUE]
    /\ UNCHANGED <<sa_opts, mpc, err, exit_status, installed, exiting, skel,
                   fatal, sink, thread_err, joined, rb, arrived, dispatched,
                   trace, late_polls, autoload, hcall>>

\* a loop that tests exiting once, before its first poll only
WorkerSleep_skips_check(k) ==
    /\ wpc[k] = "sleep"
    /\ wpc' = [wpc EXCEPT ![k] = "poll"]
    /\ UNCHANGED <<sa_opts, mpc, err, exit_status, installed, exiting, skel,
                   fatal, sink, thread_err, joined, rb, arrived,
                   dispatched, trace, late_polls, autoload, poll_failed, hcall>>

\* usleep(10000);
WorkerSleep(k) ==
    /\ wpc[k] = "sleep"
    /\ wpc' = [wpc EXCEPT ![k] = "check"]
    /\ UNCHANGED <<sa_opts, mpc, err, exit_status, installed, exiting, skel,
                   fatal, sink, thread_err, joined, rb, arrived,
                   dispatched, trace, late_polls, autoload, poll_failed, hcall>>

\* cleanup: DESTROY_EVENT_RB(event); return NULL;
WorkerCleanup(k) ==
    /\ wpc[k] = "cleanup"
    /\ wpc' = [wpc EXCEPT ![k] = "done"]
    /\ UNCHANGED <<sa_opts, mpc, err, exit_status, installed, exiting, skel,
                   fatal, sink, thread_err, joined, rb, arrived,
                   dispatched, trace, late_polls, autoload, poll_failed, hcall>>

WorkerStep(k) ==
    \/ WorkerCreateRb(k) \/ WorkerCheck(k) \/ WorkerPollBegin(k)
    \/ WorkerPollReturn(k) \/ WorkerSleep(k) \/ WorkerCleanup(k)

Next ==
    \/ MainStep
    \/ SigHandler
    \/ \E k \in Threads : Arrive(k)
    \/ \E k \in Threads : WorkerStep(k)

Spec == Init /\ [][Next]_vars

\* The life cycle with a silent producer: a poll returns within its timeout
\* whether or not records arrive, so records do not steer startup or
\* shutdown.  Here a poll may also fail; a failed poll consumes nothing,
\* like an interrupted one, and differs from it in err and in what is
\* printed.  The scheduler runs main() and every thread; signals may or may
\* not come.
QuietNext ==
    \/ MainStep
    \/ SigHandler
    \/ \E k \in Threads : WorkerStep(k)
    \/ \E k \in Threads : WorkerPollError(k)

FairSpec ==
    /\ Init
    /\ [][QuietNext]_vars
    /\ WF_vars(MainStep)
    /\ \A k \in Threads : WF_vars(WorkerStep(k))

----------------------------------------------------------------------------
(* One handler call on one event under one option block: the inputs are   *)
(* drawn from bounded sets, the call is the code's.                        *)

SeqsUpTo(S, n) == UNION {[1..m -> S] : m \in 0..n}

Vals == {Sentinel} \cup 0..MaxVal
OptVals == {Sentinel, 1}
Timestamps == {5}
Chars == {"a", "b"}
Pids == {1, 2}
\* the substrings a filter is configured with
Needles == {<<"a">>, <<"b">>, <<"a", "b">>, <<"b", "a">>, << >>}

\* the tasks events are about, and the filters they meet
Tasks == {[pid |-> 1, comm |-> <<"a">>], [pid |-> 2, comm |-> <<"a", "b">>]}
Filters == {[pid |-> << >>, comm |-> << >>],
            [pid |-> <<1>>, comm |-> << >>],
            [pid |-> << >>, comm |-> <<(<<"b">>)>>]}

HandlerEvents(kind) ==
    CASE kind = "rq_pelt" ->
           [ts : Timestamps, cpu : {0}, type : PeltTypes, load_avg : OptVals,
            runnable_avg : OptVals, util_avg : Vals, uclamp_min : Vals,
            uclamp_max : Vals, util_est_enqueued : OptVals]
      [] kind = "task_pelt" ->
           {[ts |-> 5, pid |-> t.pid, comm |-> t.comm, load_avg |-> f.load_avg,
             runnable_avg |-> f.runnable_avg, util_avg |-> f.util_avg,
             uclamp_min |-> f.uclamp_min, uclamp_max |-> f.uclamp_max,
             util_est_enqueued |-> f.util_est_enqueued,
             util_est_ewma |-> f.util_est_ewma] :
              t \in Tasks,
              f \in [load_avg : OptVals, runnable_avg : OptVals,
                     util_avg : Vals, uclamp_min : Vals, uclamp_max : Vals,
                     util_est_enqueued : OptVals, util_est_ewma : OptVals]}
      [] kind = "rq_nr_running" ->
           [ts : Timestamps, cpu : {0}, nr_running : 0..MaxVal]
      [] kind = "sched_switch" ->
           {[ts |-> 5, pid |-> t.pid, comm |-> t.comm, running |-> r] :
              t \in Tasks, r \in BOOLEAN}
      [] kind = "freq_idle" ->
           [ts : Timestamps, cpu : {0}, idle_state : {0, 1},
            idle_miss : {0, 1}]
      [] kind = "softirq" -> [ts : Timestamps, cpu : {0}]
      [] kind = "lb" ->
           [ts : Timestamps, phase : LbPhases, entry : BOOLEAN,
            this_cpu : {0}, lb_cpu : {1}, overloaded : OptVals,
            overutilized : OptVals, misfit_task_load : OptVals,
            sd_stats : {0}]
      [] kind = "ipi" ->
           [ts : Timestamps, from_cpu : {0}, target_cpu : {1},
            callsite : {1, 2}, callback : {1, 2}]

\* the option blocks a handler is called under: every setting of the
\* capabilities of the event's group under every filter; rq_pelt events
\* meet the filters with all their capabilities on
HandlerConfigs(kind) ==
    CASE kind = "rq_pelt" ->
           {MkOpts(on, << >>, << >>) : on \in SUBSET CpuPeltCaps}
           \cup {MkOpts(CpuPeltCaps, f.pid, f.comm) : f \in Filters}
      [] kind \in {"task_pelt", "sched_switch"} ->
           {MkOpts(on, f.pid, f.comm) : on \in SUBSET TaskCaps, f \in Filters}
      [] kind \in {"rq_nr_running", "freq_idle"} ->
           {MkOpts(on, f.pid, f.comm) :
              on \in SUBSET CpuStateCaps, f \in Filters}
      [] OTHER ->
           {MkOpts(on, f.pid, f.comm) : on \in SUBSET GlobalCaps, f \in Filters}

HInit ==
    /\ sa_opts = MkOpts({}, << >>, << >>)
    /\ mpc = At("argp")
    /\ err = 0
    /\ exit_status = << >>
    /\ installed = FALSE
    /\ exiting = FALSE
    /\ skel = "null"
    /\ fatal = 0
    /\ sink = "off"
    /\ thread_err = [k \in Threads |-> -1]
    /\ joined = {}
    /\ wpc = [k \in Threads |-> "none"]
    /\ rb = [k \in Threads |-> << >>]
    /\ arrived = [k \in Threads |-> << >>]
    /\ dispatched = [k \in Threads |-> << >>]
    /\ trace = [k \in Threads |-> << >>]
    /\ late_polls = [k \in Threads |-> 0]
    /\ autoload = {}
    /\ poll_failed = [k \in Threads |-> FALSE]
    /\ hcall = NoCall

\* handle_##event##_event(ctx, data, data_sz) under sa_opts = o
HandlerCall ==
    /\ hcall = NoCall
    /\ \E n \in 1..Len(Kinds) :
          \E o \in HandlerConfigs(Kinds[n]), e \in HandlerEvents(Kinds[n]) :
             /\ sa_opts' = o
             /\ hcall' = <<[fn |-> Kinds[n], ev |-> e,
                            recs |-> Handle(Kinds[n], o, e),
                            ret |-> FALSE]>>
    /\ UNCHANGED pipeline_vars

\* ignore_pid_comm(pid, comm) under a filter of pids and comms
IgnoreCall ==
    /\ hcall = NoCall
    /\ \E pids \in SeqsUpTo(Pids, MaxFilter),
          comms \in SeqsUpTo(Needles, MaxFilter),
          pid \in Pids \cup {3},
          comm \in SeqsUpTo(Chars, MaxCommLen) :
             LET o == MkOpts({}, pids, comms)
             IN  /\ sa_opts' = o
                 /\ hcall' = <<[fn |-> "ignore_pid_comm",
                                ev |-> [pid |-> pid, comm |-> comm],
                                recs |-> << >>,
                                ret |-> ignore_pid_comm(o, pid, comm)]>>
    /\ UNCHANGED pipeline_vars

\* the autoload selection of main() under every setting of the capabilities:
\* ret is the set of programs left to load
AutoloadCall ==
    /\ hcall = NoCall
    /\ \E on \in SUBSET Caps :
          LET o == MkOpts(on, << >>, << >>)
          IN  /\ sa_opts' = o
              /\ hcall' = <<[fn |-> "set_autoload", ev |-> << >>,
                             recs |-> << >>,
                             ret |-> Progs \ set_autoload(o)]>>
    /\ UNCHANGED pipeline_vars

\* clamp(val, lo, hi) on arguments that are not the sentinel, in every order
ClampCall ==
    /\ hcall = NoCall
    /\ \E val \in 0..MaxClamp, lo \in 0..MaxClamp, hi \in 0..MaxClamp :
          hcall' = <<[fn |-> "clamp",
                      ev |-> [val |-> val, lo |-> lo, hi |-> hi],
                      recs |-> << >>,
                      ret |-> clamp(val, lo, hi)]>>
    /\ UNCHANGED sa_opts
    /\ UNCHANGED pipeline_vars

HNext == HandlerCall \/ IgnoreCall \/ AutoloadCall \/ ClampCall

HSpec == HInit /\ [][HNext]_vars

----------------------------------------------------------------------------
(* Properties of the pipeline *)

\* C1: no trace_*() call is made once stop_perfetto_trace() has returned:
\* every record a thread appended met a session that was not yet stopped.
C1_NoAppendAfterStop ==
    \A k \in Threads : \A n \in 1..Len(trace[k]) :
        trace[k][n].session # "stopped"

\* C2 as stated: once exiting is set no thread begins a ring_buffer__poll.
C2_NoPollBeginsAfterExiting ==
    \A k \in Threads : late_polls[k] = 0

\* C2 amended: once exiting is set a thread begins at most one more poll, the
\* one whose loop condition was evaluated before the set; a loop condition
\* evaluated with exiting set never leads to a poll.
C2_AtMostOneLatePoll ==
    /\ [](\A k \in Threads : late_polls[k] <= 1)
    /\ [][\A k \in Threads :
            (exiting /\ wpc[k] = "check") => wpc'[k] \in {"check", "cleanup"}]_vars

\* a thread that began one poll after exiting was set, and then returned
C2_Witness ==
    \E k \in Threads : late_polls[k] = 1 /\ wpc[k] = "done"

\* C3: once every thread is spawned and exiting is set, every thread returns,
\* main() joins them all and returns.
C3_ShutdownCompletes ==
    (exiting /\ \A k \in Threads : wpc[k] # "none")
        ~> (mpc = At("done") /\ joined = Threads
            /\ \A k \in Threads : wpc[k] = "done")

\* main() has returned after joining every thread of a stopped session
C3_Witness ==
    /\ mpc = At("done")
    /\ sink = "stopped"
    /\ joined = Threads

\* C4: main() returns 0 after a clean shutdown, and the magnitude of the
\* error code when load or attach failed.
C4_ExitStatusReflectsFatal ==
    mpc = At("done") =>
        IF fatal # 0 THEN exit_status = <<-fatal>>
        ELSE (sink = "stopped" => exit_status = <<0>>)

\* C5: when load or attach fails no thread is ever spawned or joined, the
\* session is never started, and main() is on its cleanup path.
C5_AllOrNothing ==
    fatal # 0 =>
        /\ \A k \in Threads : wpc[k] = "none" /\ thread_err[k] # 0
        /\ joined = {}
        /\ sink = "init"
        /\ mpc.at \in {"join", "destroy", "done"}

\* main() has returned after a failed load or attach
C5_Witness ==
    fatal # 0 /\ mpc = At("done")

\* C10 as stated: when the run is over, every record that arrived in a ring
\* buffer has been dispatched, once, in order, to its own handler.
C10_AllDispatched ==
    mpc = At("done") =>
        \A k \in Threads :
            dispatched[k] = Invocations(Kinds[k], arrived[k])

\* C10 amended: at every point the invocations made for a ring buffer,
\* followed by the records still pending in it, are the records that arrived
\* in it, in order and each to its own kind's handler; the number of
\* invocations is the number of arrivals minus the number still pending.
C10_DispatchedThenPending ==
    /\ \A k \in Threads :
          /\ Len(dispatched[k]) + Len(rb[k]) = Len(arrived[k])
          /\ \A n \in 1..Len(dispatched[k]) :
                /\ dispatched[k][n].handler = Kinds[k]
                /\ dispatched[k][n].ev = arrived[k][n]
          /\ \A n \in 1..Len(rb[k]) :
                rb[k][n] = arrived[k][Len(dispatched[k]) + n]
    /\ SumLen(dispatched, Threads) = SumLen(arrived, Threads) - SumLen(rb, Threads)

\* two records of one ring buffer have been dispatched
C10_Witness ==
    \E k \in Threads : Len(dispatched[k]) >= 2

----------------------------------------------------------------------------
(* Properties of the handlers *)

\* the call made, once made
Called(fn) == hcall # NoCall /\ hcall[1].fn = fn

\* the number of records of a call made through one trace_*() function
CountOp(recs, op) == Cardinality({n \in 1..Len(recs) : recs[n].op = op})

\* the zero-valued records of a sched_switch event and the capability of each
SwitchSignals ==
    {[op |-> "trace_task_load_avg", cap |-> "load_avg_task"],
     [op |-> "trace_task_util_avg", cap |-> "util_avg_task"],
     [op |-> "trace_task_uclamped_avg", cap |-> "util_avg_task"],
     [op |-> "trace_task_util_est_enqueued", cap |-> "util_est_task"],
     [op |-> "trace_task_util_est_ewma", cap |-> "util_est_task"]}

\* C6: a sched_switch event with running = false that is not ignored emits
\* exactly one zero-valued record with the event's timestamp for each signal
\* whose own capability is on and none for the others; running = true emits
\* nothing.
C6_SwitchZeroesEnabledSignals ==
    Called("sched_switch") =>
        LET e == hcall[1].ev
            recs == hcall[1].recs
        IN  IF e.running THEN recs = << >>
            ELSE ~ignore_pid_comm(sa_opts, e.pid, e.comm) =>
                    /\ \A s \in SwitchSignals :
                          CountOp(recs, s.op) = IF sa_opts[s.cap] THEN 1 ELSE 0
                    /\ \A n \in 1..Len(recs) :
                          /\ recs[n].val = 0
                          /\ recs[n].ts = e.ts
                          /\ recs[n].op \in {s.op : s \in SwitchSignals}

\* the event fields whose value a trace_*() call is given
CarriedFields(op) ==
    CASE op \in {"trace_cpu_load_avg", "trace_cpu_load_avg_thermal",
                 "trace_task_load_avg"} -> {"load_avg"}
      [] op \in {"trace_cpu_runnable_avg", "trace_task_runnable_avg"} ->
           {"runnable_avg"}
      [] op \in {"trace_cpu_util_avg", "trace_cpu_util_avg_rt",
                 "trace_cpu_util_avg_dl", "trace_cpu_util_avg_irq",
                 "trace_task_util_avg"} -> {"util_avg"}
      [] op \in {"trace_cpu_uclamped_avg", "trace_task_uclamped_avg"} ->
           {"util_avg", "uclamp_min", "uclamp_max"}
      [] op \in {"trace_cpu_util_est_enqueued",
                 "trace_task_util_est_enqueued"} -> {"util_est_enqueued"}
      [] op = "trace_task_util_est_ewma" -> {"util_est_ewma"}
      [] op = "trace_lb_overloaded" -> {"overloaded"}
      [] op = "trace_lb_overutilized" -> {"overutilized"}
      [] op = "trace_lb_misfit" -> {"misfit_task_load"}
      [] OTHER -> {}

\* C7: no handler gives a trace_*() call the value of an event field that
\* holds the sentinel.  (sched_switch records carry constants, not fields.)
C7_NoRecordFromSentinel ==
    \A kind \in {"rq_pelt", "task_pelt", "rq_nr_running", "freq_idle",
                 "softirq", "lb", "ipi"} :
        Called(kind) =>
            \A n \in 1..Len(hcall[1].recs) :
                \A f \in CarriedFields(hcall[1].recs[n].op) :
                    hcall[1].ev[f] # Sentinel

\* the clamped records of a call
ClampedRecs ==
    {n \in 1..Len(hcall[1].recs) :
        hcall[1].recs[n].op \in {"trace_cpu_uclamped_avg",
                                 "trace_task_uclamped_avg"}}

\* C8 as stated: whenever util_avg, uclamp_min and uclamp_max all differ from
\* the sentinel, the clamped value lies in [uclamp_min, uclamp_max] and is
\* util_avg when util_avg lies there.
C8_ClampedWithinBounds ==
    Called("rq_pelt") \/ Called("task_pelt") =>
        LET e == hcall[1].ev
        IN  (e.util_avg # Sentinel /\ e.uclamp_min # Sentinel
             /\ e.uclamp_max # Sentinel) =>
                \A n \in ClampedRecs :
                    LET c == hcall[1].recs[n].val
                    IN  /\ e.uclamp_min <= c /\ c <= e.uclamp_max
                        /\ (e.uclamp_min <= e.util_avg
                            /\ e.util_avg <= e.uclamp_max) => c = e.util_avg

\* C8 amended: the same, for uclamp_min <= uclamp_max.
C8_ClampedWithinOrderedBounds ==
    Called("rq_pelt") \/ Called("task_pelt") =>
        LET e == hcall[1].ev
        IN  (e.util_avg # Sentinel /\ e.uclamp_min # Sentinel
             /\ e.uclamp_max # Sentinel /\ e.uclamp_min <= e.uclamp_max) =>
                \A n \in ClampedRecs :
                    LET c == hcall[1].recs[n].val
                    IN  /\ e.uclamp_min <= c /\ c <= e.uclamp_max
                        /\ (e.uclamp_min <= e.util_avg
                            /\ e.util_avg <= e.uclamp_max) => c = e.util_avg

\* a clamped record was emitted for a util_avg below an ordered range
C8_Witness ==
    /\ Called("rq_pelt") \/ Called("task_pelt")
    /\ hcall[1].ev.util_avg # Sentinel
    /\ hcall[1].ev.uclamp_min # Sentinel
    /\ hcall[1].ev.util_avg < hcall[1].ev.uclamp_min
    /\ hcall[1].ev.uclamp_min <= hcall[1].ev.uclamp_max
    /\ ClampedRecs # {}

\* comm contains sub as a run of consecutive characters
Contains(comm, sub) ==
    \E i \in 0..(Len(comm) - Len(sub)) :
        \A j \in 1..Len(sub) : comm[i + j] = sub[j]

\* C9: ignore_pid_comm is false when both lists are empty; otherwise it is
\* false iff the pid is listed or comm contains a listed substring.
C9_IgnoreDecision ==
    Called("ignore_pid_comm") =>
        LET pid == hcall[1].ev.pid
            comm == hcall[1].ev.comm
            pidset == {sa_opts.pid[i] : i \in 1..sa_opts.num_pids}
            subs == {sa_opts.comm[i] : i \in 1..sa_opts.num_comms}
        IN  hcall[1].ret =
               IF pidset = {} /\ subs = {} THEN FALSE
               ELSE ~(pid \in pidset \/ \E s \in subs : Contains(comm, s))

\* a task kept only because its comm holds a listed substring past its start
C9_Witness ==
    /\ Called("ignore_pid_comm")
    /\ hcall[1].ret = FALSE
    /\ sa_opts.num_pids > 0
    /\ \A i \in 1..sa_opts.num_pids : sa_opts.pid[i] # hcall[1].ev.pid
    /\ Len(hcall[1].ev.comm) = 3
    /\ \A i \in 1..sa_opts.num_comms :
          /\ Len(sa_opts.comm[i]) = 2
          /\ <<hcall[1].ev.comm[1], hcall[1].ev.comm[2]>> # sa_opts.comm[i]

\* C11: every lb event gives exactly one span record: trace_lb_entry keyed by
\* this_cpu, lb_cpu and the phase name when entry is set, trace_lb_exit keyed
\* by this_cpu and lb_cpu otherwise; trace_lb_sd_stats is called iff the phase
\* is LB_REBALANCE_DOMAINS and entry is set.
C11_OneSpanPerLbEvent ==
    Called("lb") =>
        LET e == hcall[1].ev
            recs == hcall[1].recs
            spans == {n \in 1..Len(recs) :
                         recs[n].op \in {"trace_lb_entry", "trace_lb_exit"}}
        IN  /\ Cardinality(spans) = 1
            /\ \A n \in spans :
                   /\ recs[n].ts = e.ts
                   /\ recs[n].op = IF e.entry THEN "trace_lb_entry"
                                             ELSE "trace_lb_exit"
                   /\ recs[n].key =
                         IF e.entry
                         THEN <<e.this_cpu, e.lb_cpu, lb_phase_name(e.phase)>>
                         ELSE <<e.this_cpu, e.lb_cpu>>
            /\ CountOp(recs, "trace_lb_sd_stats") =
                  IF e.phase = "LB_REBALANCE_DOMAINS" /\ e.entry THEN 1 ELSE 0

\* the exit of rebalance_domains(): one span end and no snapshot
C11_Witness ==
    /\ Called("lb")
    /\ hcall[1].ev.phase = "LB_REBALANCE_DOMAINS"
    /\ ~hcall[1].ev.entry
    /\ CountOp(hcall[1].recs, "trace_lb_exit") = 1
    /\ CountOp(hcall[1].recs, "trace_lb_sd_stats") = 0

\* C12: a poll that fails in one thread leaves that thread in its loop: it
\* goes on to the usleep() and the loop test, and polls again unless
\* exiting is set.  The failing step leaves exiting, main() with its err and
\* exit status, and the position of every other thread as they were.
C12_PollErrorContained ==
    /\ [][\A k \in Threads :
             (wpc[k] = "in_poll" /\ wpc'[k] # "in_poll" /\ poll_failed'[k]) =>
                /\ wpc'[k] = "sleep"
                /\ exiting' = exiting
                /\ <<mpc, err, exit_status, thread_err, joined>>'
                      = <<mpc, err, exit_status, thread_err, joined>>
                /\ \A j \in Threads \ {k} : wpc'[j] = wpc[j]]_vars
    /\ [][\A k \in Threads :
             (poll_failed[k] /\ wpc[k] = "sleep" /\ wpc'[k] # "sleep") =>
                wpc'[k] = "check"]_vars
    /\ [][\A k \in Threads :
             (poll_failed[k] /\ wpc[k] = "check" /\ wpc'[k] # "check") =>
                wpc'[k] = IF exiting THEN "cleanup" ELSE "poll"]_vars

\* a thread polling again after a failed poll while another thread runs
C12_Witness ==
    \E k \in Threads :
        /\ poll_failed[k]
        /\ wpc[k] = "in_poll"
        /\ ~exiting
        /\ \E j \in Threads \ {k} : wpc[j] \in {"poll", "in_poll", "sleep"}

\* the options o with the pid and comm lists of the filter f
WithFilter(o, f) ==
    [o EXCEPT !.num_pids = Len(f.pid), !.pid = f.pid,
              !.num_comms = Len(f.comm), !.comm = f.comm]

QueueKinds == {"rq_pelt", "rq_nr_running", "freq_idle", "lb", "ipi"}

\* C13: a task_pelt or sched_switch event of a task that ignore_pid_comm
\* rejects gives no record; the records of an rq_pelt, rq_nr_running,
\* freq_idle, lb or ipi event are the same under every pid and comm list.
C13_FilterOnlyTaskKinds ==
    /\ (Called("task_pelt") \/ Called("sched_switch")) =>
          (ignore_pid_comm(sa_opts, hcall[1].ev.pid, hcall[1].ev.comm)
             => hcall[1].recs = << >>)
    /\ \A kind \in QueueKinds :
          Called(kind) =>
             \A f \in Filters :
                Handle(kind, WithFilter(sa_opts, f), hcall[1].ev)
                   = hcall[1].recs

\* a per-CPU record made under a pid list that names no task of the event
C13_Witness ==
    /\ Called("rq_nr_running")
    /\ sa_opts.num_pids > 0
    /\ ignore_pid_comm(sa_opts, 0, << >>)
    /\ hcall[1].recs # << >>

\* the programs that follow the capabilities, each with the capabilities it
\* serves
ServedBy ==
    [p \in LbProgs |-> {"load_balance"}]
    @@ [p \in {"handle_cpu_idle", "handle_cpu_idle_miss"} |-> {"cpu_idle"}]
    @@ ("handle_pelt_rt" :> {"util_avg_rt"})
    @@ ("handle_pelt_dl" :> {"util_avg_dl"})
    @@ ("handle_pelt_irq" :> {"util_avg_irq"})
    @@ ("handle_pelt_thermal" :> {"load_avg_thermal"})
    @@ ("handle_util_est_cfs" :> {"util_est_cpu"})
    @@ ("handle_util_est_se" :> {"util_est_task"})
    @@ ("handle_sched_update_nr_running" :> {"cpu_nr_running"})
    @@ ("handle_ipi_send_cpu" :> {"ipi"})
    @@ ("handle_pelt_cfs" :>
          {"load_avg_cpu", "runnable_avg_cpu", "util_avg_cpu"})
    @@ ("handle_pelt_se" :>
          {"load_avg_task", "runnable_avg_task", "util_avg_task"})
    @@ ("handle_sched_process_free" :>
          {"load_avg_task", "runnable_avg_task", "util_avg_task",
           "util_est_task"})

\* C14: the programs left to load are a function of the capabilities alone: a
\* program serving one capability is loaded iff it is on, the two idle
\* programs and the load-balance entry / exit programs go with cpu_idle and
\* load_balance, and a program serving several capabilities is dropped iff
\* all of them are off; no other program is loaded.
C14_AutoloadFollowsToggles ==
    Called("set_autoload") =>
        LET on == {c \in Caps : sa_opts[c]}
        IN  /\ \A p \in DOMAIN ServedBy :
                   p \in hcall[1].ret <=> ServedBy[p] \cap on # {}
            /\ hcall[1].ret \subseteq DOMAIN ServedBy

\* the cfs program kept for util_avg_cpu alone while load balancing is off
C14_Witness ==
    /\ Called("set_autoload")
    /\ sa_opts.util_avg_cpu /\ ~sa_opts.load_avg_cpu
    /\ ~sa_opts.runnable_avg_cpu /\ ~sa_opts.load_balance
    /\ "handle_pelt_cfs" \in hcall[1].ret
    /\ hcall[1].ret \cap LbProgs = {}

\* C15: for arguments different from the sentinel, uclamp_min > uclamp_max
\* included, clamp(util_avg, uclamp_min, uclamp_max) is
\* min(max(util_avg, uclamp_min), uclamp_max).
C15_ClampIsMinOfMax ==
    Called("clamp") =>
        LET e == hcall[1].ev
            upper == IF e.val >= e.lo THEN e.val ELSE e.lo
        IN  hcall[1].ret = IF upper <= e.hi THEN upper ELSE e.hi

\* the util_avg record of each of the rt, dl and irq signal types
UtilVariant ==
    [rt  |-> [op |-> "trace_cpu_util_avg_rt", cap |-> "util_avg_rt"],
     dl  |-> [op |-> "trace_cpu_util_avg_dl", cap |-> "util_avg_dl"],
     irq |-> [op |-> "trace_cpu_util_avg_irq", cap |-> "util_avg_irq"]]

\* what an rq_pelt event of type rt, dl or irq is expected to give as its
\* util_avg record
OwnUtilRecord(e) ==
    If(sa_opts[UtilVariant[e.type].cap] /\ e.util_avg # Sentinel,
       <<Rec(UtilVariant[e.type].op, e.ts, <<e.cpu>>, e.util_avg)>>)

\* C16 as claimed: apart from trace_cpu_util_est_enqueued, an rq_pelt event
\* of type rt, dl or irq gives the util_avg record of its type, iff the
\* capability of the type is on and util_avg is not the sentinel, and no
\* other record.
C16_OnlyOwnUtilRecord ==
    (Called("rq_pelt") /\ hcall[1].ev.type \in DOMAIN UtilVariant) =>
        LET NotUtilEst(r) == r.op # "trace_cpu_util_est_enqueued"
        IN  SelectSeq(hcall[1].recs, NotUtilEst) = OwnUtilRecord(hcall[1].ev)

\* C16 as the handler has it: of the util_avg records an rq_pelt event of type
\* rt, dl or irq gives the one of its type only, iff the capability of the
\* type is on and util_avg is not the sentinel; trace_cpu_load_avg and
\* trace_cpu_runnable_avg follow their own capability and sentinel test
\* whatever the type, and nothing else but trace_cpu_util_est_enqueued is
\* called.
C16_OwnUtilRecordBesideLoad ==
    (Called("rq_pelt") /\ hcall[1].ev.type \in DOMAIN UtilVariant) =>
        LET e == hcall[1].ev
            recs == hcall[1].recs
            IsUtil(r) == r.op \in {"trace_cpu_util_avg",
                                   "trace_cpu_uclamped_avg",
                                   "trace_cpu_util_avg_rt",
                                   "trace_cpu_util_avg_dl",
                                   "trace_cpu_util_avg_irq"}
            NotUtil(r) == ~IsUtil(r) /\ r.op # "trace_cpu_util_est_enqueued"
        IN  /\ SelectSeq(recs, IsUtil) = OwnUtilRecord(e)
            /\ SelectSeq(recs, NotUtil) =
                  If(sa_opts.load_avg_cpu /\ e.load_avg # Sentinel,
                     <<Rec("trace_cpu_load_avg", e.ts, <<e.cpu>>,
                           e.load_avg)>>)
                  \o If(sa_opts.runnable_avg_cpu /\ e.runnable_avg # Sentinel,
                        <<Rec("trace_cpu_runnable_avg", e.ts, <<e.cpu>>,
                              e.runnable_avg)>>)

\* an rt event giving its util_avg record next to a load_avg record
C16_Witness ==
    /\ Called("rq_pelt")
    /\ hcall[1].ev.type = "rt"
    /\ ~sa_opts.util_avg_cpu
    /\ CountOp(hcall[1].recs, "trace_cpu_util_avg_rt") = 1
    /\ CountOp(hcall[1].recs, "trace_cpu_load_avg") = 1

\* C17: once the creation of a thread has failed, main() comes to its end
\* without a signal: the threads created before return and are joined.
C17_CreateFailureTerminates ==
    (\E k \in Threads : thread_err[k] > 0) ~> (mpc = At("done"))

\* C18: no handler is run, and no trace_*() call is made, before
\* start_perfetto_trace() has been executed.
C18_NoDispatchBeforeStart ==
    \A k \in Threads :
        /\ dispatched[k] # << >> => sink \in {"recording", "stopped"}
        /\ \A n \in 1..Len(trace[k]) :
              trace[k][n].session \in {"recording", "stopped"}

\* C19: once exiting is set a thread begins at most one more poll, and only
\* if it stood between its loop test and the poll; after the usleep() that
\* follows a poll it polls no more, so it sleeps at most once more; a thread
\* that had not reached its first loop test when exiting was set never polls.
C19_AtMostOnePollAndSleep ==
    /\ [](\A k \in Threads : late_polls[k] <= 1)
    /\ \A k \in Threads :
          []((exiting /\ wpc[k] # "poll") => [](wpc[k] # "poll"))
    /\ \A k \in Threads :
          []((exiting /\ wpc[k] = "sleep") => [](wpc[k] # "in_poll"))
    /\ \A k \in Threads :
          []((exiting /\ wpc[k] \in {"none", "create_rb"}) =>
                [](late_polls[k] = 0 /\ wpc[k] \notin {"in_poll", "sleep"}))

\* one thread sleeping after its late poll, another returned without a poll
\* after exiting was set
C19_Witness ==
    /\ exiting
    /\ \E k \in Threads :
          /\ late_polls[k] = 1
          /\ wpc[k] = "sleep"
          /\ \E j \in Threads \ {k} : wpc[j] = "done" /\ late_polls[j] = 0

\* C20: pthread_join() is called for created threads only, and when the
\* skeleton is destroyed every created thread has returned and was joined,
\* so that no thread is creating or polling a ring buffer.
C20_DestroyAfterJoins ==
    /\ joined \subseteq {k \in Threads : thread_err[k] = 0}
    /\ skel = "destroyed" =>
          \A k \in Threads :
             IF thread_err[k] = 0
             THEN wpc[k] = "done" /\ k \in joined
             ELSE wpc[k] = "none"

\* the skeleton destroyed after the one created thread was joined
C20_Witness ==
    /\ skel = "destroyed"
    /\ joined # {}
    /\ \E k \in Threads : thread_err[k] > 0

====
